---- MODULE Spec2Model ----
(***************************************************************************)
(* State-machine model of the useMediaRecorder hook (src/index.js).        *)
(*                                                                         *)
(* The hook keeps three refs (mediaChunks, mediaStream, mediaRecorder) and *)
(* four React state cells (status, errorCache, mediaBlobCache,             *)
(* isAudioMutedCache).  The host (browser) is modelled next to it: the     *)
(* streams and tracks handed out by getUserMedia/getDisplayMedia, and the  *)
(* MediaRecorder objects with their state, registered listeners and queue  *)
(* of events still to be fired.                                            *)
(*                                                                         *)
(* One action is one run-to-completion piece of JavaScript: a command of   *)
(* the caller up to its first pending await, the continuation of an async  *)
(* function once the host settles the promise, or one event handler.  The  *)
(* re-render React performs after a state cell changed is part of the      *)
(* action that changed it (Commit).  The bounds that keep the model finite *)
(* are guards of the next-state relations, not of the actions.             *)
(***************************************************************************)
EXTENDS Integers, Sequences, FiniteSets, TLC

\* ---- bounds of the model ----
MaxAcquire == 2      \* getMediaStream runs (stand-alone or inside startRecording)
MaxChunkEvents == 1  \* timeslice dataavailable events handled in one session
MaxChunks == 2       \* the same, in ChunkSpec
MaxEncoders == 1     \* MediaRecorder objects ever constructed, in Spec
MaxCalls == 1        \* async calls awaiting the host at the same time, in Spec
MaxSessions == 2     \* MediaRecorder objects ever constructed, in SessionSpec
MaxPending == 2      \* async calls awaiting the host at the same time, in SessionSpec

\* ---- values ----
NULL == 0            \* a null ref (stream and encoder handles are 1, 2, ...)
NoError == "null"    \* errorCache === null
Statuses ==
  {"idle", "acquiring_media", "ready", "recording", "paused", "stopping", "stopped", "failed"}
AcquireErrors == {"NotAllowedError"}
RecorderErrors == {"RecorderError"}
TimeSlices == {0, 1000}   \* 0 is startRecording() without an argument
Events == {"dataavailable", "stop", "error"}

\* e.data of a dataavailable event: a Blob with a size and a type
Chunks ==
  { [size |-> 0, type |-> "audio/webm"],
    [size |-> 4, type |-> "audio/webm"],
    [size |-> 10, type |-> "video/webm"] }

\* mediaBlobCache === null; a Blob built by handleStop has enc >= 1
NoBlob == [enc |-> NULL, parts |-> <<>>, type |-> "null"]

VARIABLES
  \* props of the hook (fixed for one mounted component)
  recordScreen, customMediaStream, blobOptions, mediaStreamConstraints,
  \* React state cells and refs
  status, errorCache, mediaBlobCache, isAudioMutedCache,
  mediaChunks, mediaStream, mediaRecorder,
  \* what the last render returned as liveStream, and whether the hook is mounted
  liveStream, mounted,
  \* host: streams handed out, MediaRecorder objects, async calls in flight
  streams, encoders, calls,
  \* callbacks of the caller, as logs
  onStartCalls, onStopCalls, onDataAvailableCalls, onErrorCalls,
  \* history: dataavailable events dispatched to handleDataAvailable since
  \* mediaChunks was last reset, getMediaStream runs so far
  delivered, nAcquire,
  \* what the promise of the caller's last settled getMediaStream() resolved
  \* with, as a sequence of one value (empty: none has settled)
  yielded

props == <<recordScreen, customMediaStream, blobOptions, mediaStreamConstraints>>
cells == <<status, errorCache, mediaBlobCache, isAudioMutedCache>>
refs == <<mediaChunks, mediaStream, mediaRecorder>>
callbacks == <<onStartCalls, onStopCalls, onDataAvailableCalls, onErrorCalls>>
vars ==
  <<props, cells, refs, liveStream, mounted, streams, encoders, calls,
    callbacks, delivered, nAcquire, yielded>>

\* ---- host objects ----
Track(kind) == [kind |-> kind, enabled |-> TRUE, stops |-> 0]

\* the stream getUserMedia resolves with: a video track, and an audio track
\* when the constraints ask for audio
UserStream(audio) ==
  [tracks |-> IF audio THEN <<Track("audio"), Track("video")>> ELSE <<Track("video")>>]

\* the stream getDisplayMedia resolves with
DisplayStream == [tracks |-> <<Track("video")>>]

\* getUserMedia({audio}) of the screen-record composition
MicStream == [tracks |-> <<Track("audio")>>]

GetAudioTracks(s) == SelectSeq(s.tracks, LAMBDA t : t.kind = "audio")

\* stream.addTrack for every audio track of audioStream
AddAudioTracks(s, audioStream) == [s EXCEPT !.tracks = @ \o GetAudioTracks(audioStream)]

\* setState of an unmounted component is dropped by React
SetState(old, new) == IF mounted THEN new ELSE old

\* errorCache as the closure of a command reads it: the value of the render
\* the function was taken from.  The caller may hold the function of the
\* latest render (the current value) or one it kept from the first render
\* (null); a kept closure that saw an older error acts like the latest one.
ErrorSeen == {errorCache, NoError}

\* if (errorCache) cacheError(null)
ClearedError(seen) == IF seen # NoError THEN SetState(errorCache, NoError) ELSE errorCache

\* React renders again when a state cell changed; the render reads
\* mediaStream.current into the returned liveStream
Commit ==
  liveStream' = IF mounted /\ cells' # cells THEN mediaStream' ELSE liveStream

\* the props the hook is mounted with: camera and microphone, screen with
\* microphone and a blob type of the caller, a stream of the caller's own
Props ==
  { [recordScreen |-> FALSE, audio |-> TRUE, custom |-> FALSE, blobType |-> "null"],
    [recordScreen |-> TRUE, audio |-> TRUE, custom |-> FALSE, blobType |-> "video/mp4"],
    [recordScreen |-> FALSE, audio |-> TRUE, custom |-> TRUE, blobType |-> "null"] }

\* a hook whose isAudioMuted cell starts at true
Init_Muted ==
  /\ \E p \in Props :
       /\ recordScreen = p.recordScreen
       /\ mediaStreamConstraints = [audio |-> p.audio]
       /\ blobOptions = [type |-> p.blobType]
       /\ customMediaStream = IF p.custom THEN 1 ELSE NULL
       /\ streams = IF p.custom THEN <<UserStream(TRUE)>> ELSE <<>>
  /\ status = "idle"
  /\ errorCache = NoError
  /\ mediaBlobCache = NoBlob
  /\ isAudioMutedCache = TRUE
  /\ mediaChunks = <<>>
  /\ mediaStream = NULL
  /\ mediaRecorder = NULL
  /\ liveStream = NULL
  /\ mounted = TRUE
  /\ encoders = <<>>
  /\ calls = <<>>
  /\ onStartCalls = 0
  /\ onStopCalls = <<>>
  /\ onDataAvailableCalls = <<>>
  /\ onErrorCalls = <<>>
  /\ delivered = <<>>
  /\ nAcquire = 0
  /\ yielded = <<>>

Init ==
  /\ \E p \in Props :
       /\ recordScreen = p.recordScreen
       /\ mediaStreamConstraints = [audio |-> p.audio]
       /\ blobOptions = [type |-> p.blobType]
       /\ customMediaStream = IF p.custom THEN 1 ELSE NULL
       /\ streams = IF p.custom THEN <<UserStream(TRUE)>> ELSE <<>>
  /\ status = "idle"
  /\ errorCache = NoError
  /\ mediaBlobCache = NoBlob
  /\ isAudioMutedCache = FALSE
  /\ mediaChunks = <<>>
  /\ mediaStream = NULL
  /\ mediaRecorder = NULL
  /\ liveStream = NULL
  /\ mounted = TRUE
  /\ encoders = <<>>
  /\ calls = <<>>
  /\ onStartCalls = 0
  /\ onStopCalls = <<>>
  /\ onDataAvailableCalls = <<>>
  /\ onErrorCalls = <<>>
  /\ delivered = <<>>
  /\ nAcquire = 0
  /\ yielded = <<>>


\* ---- pure parts of the handlers ----

\* a handleDataAvailable that pushes every chunk, the empty ones too
PushChunk_KeepEmpty(chunks, data) == Append(chunks, data)

\* handleDataAvailable: if (e.data.size) mediaChunks.current.push(e.data)
PushChunk(chunks, data) == IF data.size # 0 THEN Append(chunks, data) ELSE chunks

\* handleStop: Object.assign({ type: sampleChunk.type }, blobOptions)
BlobPropertyBag(sampleChunk) ==
  [type |-> IF blobOptions.type # "null" THEN blobOptions.type ELSE sampleChunk.type]

\* handleStop: new Blob(mediaChunks.current, blobPropertyBag); enc names the
\* recorder whose stop event built it (two Blob objects are never the same)
NewBlob(enc, chunks) ==
  [enc |-> enc, parts |-> chunks, type |-> BlobPropertyBag(chunks[1]).type]

\* a clearMediaStream that stops the audio tracks only
StopTracks_AudioOnly(s) ==
  [s EXCEPT !.tracks =
     [i \in DOMAIN @ |-> IF @[i].kind = "audio" THEN [@[i] EXCEPT !.stops = @ + 1] ELSE @[i]]]

\* clearMediaStream: getTracks().forEach(track => track.stop())
StopTracks(s) == [s EXCEPT !.tracks = [i \in DOMAIN @ |-> [@[i] EXCEPT !.stops = @ + 1]]]

\* a muteAudio that goes over getTracks(), the video tracks too
SetAudioEnabled_AllTracks(s, mute) ==
  [s EXCEPT !.tracks = [i \in DOMAIN @ |-> [@[i] EXCEPT !.enabled = ~mute]]]

\* a muteAudio that assigns enabled = mute
SetAudioEnabled_NotNegated(s, mute) ==
  [s EXCEPT !.tracks =
     [i \in DOMAIN @ |-> IF @[i].kind = "audio" THEN [@[i] EXCEPT !.enabled = mute] ELSE @[i]]]

\* muteAudio: getAudioTracks().forEach(audioTrack => audioTrack.enabled = !mute)
SetAudioEnabled(s, mute) ==
  [s EXCEPT !.tracks =
     [i \in DOMAIN @ |-> IF @[i].kind = "audio" THEN [@[i] EXCEPT !.enabled = ~mute] ELSE @[i]]]

\* new MediaRecorder(stream, options), the three addEventListener calls and
\* start(timeSlice); start either throws (the recorder stays inactive) or
\* puts the recorder in state recording
NewEncoder(stream, timeSlice, throws) ==
  [ stream |-> stream,
    state |-> IF throws THEN "inactive" ELSE "recording",
    listeners |-> Events,
    timeSlice |-> timeSlice,
    startCalls |-> 1,
    threw |-> throws,
    stopCalls |-> 0,
    queue |-> <<>> ]

\* an async call awaiting the host: getMediaStream itself, or startRecording
\* awaiting the getMediaStream it called
Call(op, await, timeSlice) ==
  [op |-> op, await |-> await, stream |-> NULL, timeSlice |-> timeSlice]

RemoveAt(seq, i) == SubSeq(seq, 1, i - 1) \o SubSeq(seq, i + 1, Len(seq))

\* calls of startRecording that still await their getMediaStream
PendingStarts == Cardinality({i \in DOMAIN calls : calls[i].op = "startRecording"})

\* ---- getMediaStream ----

\* what getMediaStream returns: the bare return of the custom-stream branch
\* and the end of the function both yield undefined, never the stream
Returned == NULL

\* the synchronous part of getMediaStream, up to its first await (or its
\* return, with a custom stream)
GetMediaStream ==
  /\ mounted
  /\ \E seen \in ErrorSeen : errorCache' = ClearedError(seen)
  /\ status' = SetState(status, "acquiring_media")
  /\ IF customMediaStream # NULL
       THEN /\ mediaStream' = customMediaStream
            /\ calls' = calls
       ELSE /\ mediaStream' = mediaStream
            /\ calls' = Append(calls,
                 Call("getMediaStream", IF recordScreen THEN "display" ELSE "user", 0))
  /\ nAcquire' = nAcquire + 1
  /\ yielded' = IF customMediaStream # NULL THEN <<Returned>> ELSE yielded
  /\ UNCHANGED <<props, mediaBlobCache, isAudioMutedCache, mediaChunks, mediaRecorder,
                 mounted, streams, encoders, callbacks, delivered>>
  /\ Commit

\* the rest of startRecording after its await: mediaChunks.current = [] and,
\* if a stream is held, a new recorder with its listeners, start(timeSlice),
\* setStatus('recording'), onStart().  ms is mediaStream.current and st the
\* status cell at this point of the function.  A start() that throws ends
\* the function there: its promise rejects and nothing after the call runs.
RecorderStart(ms, st, timeSlice) ==
  /\ mediaChunks' = <<>>
  /\ delivered' = <<>>
  /\ onDataAvailableCalls' = <<>>
  /\ IF ms # NULL
       THEN \E throws \in BOOLEAN :
              /\ encoders' = Append(encoders, NewEncoder(ms, timeSlice, throws))
              /\ mediaRecorder' = Len(encoders) + 1
              /\ status' = IF throws THEN st ELSE SetState(st, "recording")
              /\ onStartCalls' = IF throws THEN onStartCalls ELSE onStartCalls + 1
       ELSE /\ status' = st
            /\ UNCHANGED <<encoders, mediaRecorder, onStartCalls>>

\* the end of an awaited getMediaStream: the caller of getMediaStream gets
\* its promise settled; startRecording goes on in the same microtask run
Settle(c, ms, st) ==
  /\ mediaStream' = ms
  /\ IF c.op = "startRecording"
       THEN RecorderStart(ms, st, c.timeSlice)
       ELSE /\ status' = st
            /\ UNCHANGED <<mediaChunks, delivered, onDataAvailableCalls, encoders,
                           mediaRecorder, onStartCalls>>

\* getDisplayMedia resolved and an audio constraint is set: the function
\* awaits getUserMedia({audio}) next
AcquireDisplay(i) ==
  /\ calls[i].await = "display"
  /\ recordScreen /\ mediaStreamConstraints.audio
  /\ streams' = Append(streams, DisplayStream)
  /\ calls' = [calls EXCEPT ![i].await = "mic", ![i].stream = Len(streams) + 1]
  /\ UNCHANGED <<props, cells, refs, liveStream, mounted, encoders, callbacks,
                 delivered, nAcquire, yielded>>

\* a getMediaStream that forgets setStatus('ready')
ResolvedStatus_Kept == status

\* getMediaStream after its last await: setStatus('ready')
ResolvedStatus == SetState(status, "ready")

\* the last await of getMediaStream resolved: mediaStream.current = stream,
\* setStatus('ready')
AcquireResolve(i) ==
  /\ calls[i].await \in {"display", "user", "mic"}
  /\ calls[i].await = "display" => ~(recordScreen /\ mediaStreamConstraints.audio)
  /\ streams' =
       IF calls[i].await = "mic"
         THEN [streams EXCEPT ![calls[i].stream] = AddAudioTracks(@, MicStream)]
         ELSE Append(streams,
                IF calls[i].await = "display" THEN DisplayStream
                ELSE UserStream(mediaStreamConstraints.audio))
  /\ Settle(calls[i],
            IF calls[i].await = "mic" THEN calls[i].stream ELSE Len(streams) + 1,
            ResolvedStatus)
  /\ yielded' = IF calls[i].op = "getMediaStream" THEN <<Returned>> ELSE yielded
  /\ calls' = RemoveAt(calls, i)
  /\ UNCHANGED <<props, errorCache, mediaBlobCache, isAudioMutedCache, mounted,
                 onStopCalls, onErrorCalls, nAcquire>>
  /\ Commit

\* an await of getMediaStream rejected: cacheError(err), setStatus('failed')
AcquireReject(i, err) ==
  /\ calls[i].await \in {"display", "user", "mic"}
  /\ errorCache' = SetState(errorCache, err)
  /\ Settle(calls[i], mediaStream, SetState(status, "failed"))
  /\ yielded' = IF calls[i].op = "getMediaStream" THEN <<Returned>> ELSE yielded
  /\ calls' = RemoveAt(calls, i)
  /\ UNCHANGED <<props, mediaBlobCache, isAudioMutedCache, mounted, streams,
                 onStopCalls, onErrorCalls, nAcquire>>
  /\ Commit

\* startRecording continues after the getMediaStream it awaited returned
\* without awaiting anything (custom stream)
StartRecordingResume(i) ==
  /\ calls[i].await = "custom"
  /\ Settle(calls[i], mediaStream, status)
  /\ calls' = RemoveAt(calls, i)
  /\ UNCHANGED <<props, errorCache, mediaBlobCache, isAudioMutedCache, mounted, streams,
                 onStopCalls, onErrorCalls, nAcquire, yielded>>
  /\ Commit

\* ---- startRecording ----

\* startRecording(timeSlice) up to its await of getMediaStream, or to its
\* end when a stream is held
StartRecording(timeSlice) ==
  /\ mounted
  /\ \E seen \in ErrorSeen : errorCache' = ClearedError(seen)
  /\ IF mediaStream # NULL
       THEN /\ RecorderStart(mediaStream, status, timeSlice)
            /\ UNCHANGED <<mediaStream, calls, nAcquire>>
       ELSE /\ status' = SetState(status, "acquiring_media")
            /\ mediaStream' = customMediaStream
            /\ calls' = Append(calls,
                 Call("startRecording",
                      IF customMediaStream # NULL THEN "custom"
                      ELSE IF recordScreen THEN "display" ELSE "user",
                      timeSlice))
            /\ nAcquire' = nAcquire + 1
            /\ UNCHANGED <<mediaChunks, mediaRecorder, encoders, onStartCalls,
                           onDataAvailableCalls, delivered>>
  /\ UNCHANGED <<props, mediaBlobCache, isAudioMutedCache, mounted, streams,
                 onStopCalls, onErrorCalls, yielded>>
  /\ Commit

\* ---- events of a MediaRecorder and their handlers ----

\* handleDataAvailable(e), run when a recorder fires dataavailable with e.data = data
HandleDataAvailable(data) ==
  /\ mediaChunks' = PushChunk(mediaChunks, data)
  /\ onDataAvailableCalls' = Append(onDataAvailableCalls, data)
  /\ delivered' = Append(delivered, data)
  /\ UNCHANGED <<cells, mediaStream, mediaRecorder, liveStream, onStartCalls, onStopCalls,
                 onErrorCalls>>

\* a handleStop that builds a blob also when no chunk is held
HandleStop_EmptyBlob(enc) ==
  LET blob == IF mediaChunks = <<>>
                THEN [enc |-> enc, parts |-> <<>>, type |-> blobOptions.type]
                ELSE NewBlob(enc, mediaChunks)
  IN  /\ mediaBlobCache' = SetState(mediaBlobCache, blob)
      /\ status' = SetState(status, "stopped")
      /\ onStopCalls' = Append(onStopCalls, blob)
      /\ UNCHANGED <<errorCache, isAudioMutedCache, refs, onStartCalls,
                     onDataAvailableCalls, onErrorCalls, delivered>>
      /\ Commit

\* handleStop(), run when recorder enc fires stop.  With no chunk held,
\* sampleChunk is undefined and reading sampleChunk.type throws a TypeError
\* inside the listener: nothing after it runs.
HandleStop(enc) ==
  IF mediaChunks = <<>>
    THEN UNCHANGED <<cells, refs, liveStream, callbacks, delivered>>
    ELSE /\ mediaBlobCache' = SetState(mediaBlobCache, NewBlob(enc, mediaChunks))
         /\ status' = SetState(status, "stopped")
         /\ onStopCalls' = Append(onStopCalls, NewBlob(enc, mediaChunks))
         /\ UNCHANGED <<errorCache, isAudioMutedCache, refs, onStartCalls,
                        onDataAvailableCalls, onErrorCalls, delivered>>
         /\ Commit

\* handleError(e), run when a recorder fires error with e.error = err
HandleError(err) ==
  /\ errorCache' = SetState(errorCache, err)
  /\ status' = SetState(status, "idle")
  /\ onErrorCalls' = Append(onErrorCalls, err)
  /\ UNCHANGED <<mediaBlobCache, isAudioMutedCache, refs, onStartCalls, onStopCalls,
                 onDataAvailableCalls, delivered>>
  /\ Commit

\* an event fired at a recorder that has no listener for it
Dropped == UNCHANGED <<cells, refs, liveStream, callbacks, delivered>>

\* a recording recorder hands over the data of one timeslice
EmitChunk(enc, data) ==
  /\ encoders[enc].state = "recording"
  /\ encoders[enc].queue = <<>>
  /\ IF "dataavailable" \in encoders[enc].listeners
       THEN HandleDataAvailable(data)
       ELSE Dropped
  /\ UNCHANGED <<props, mounted, streams, encoders, calls, nAcquire, yielded>>

\* the host fires the next queued event of recorder enc: after stop() a
\* dataavailable with the data gathered so far and then stop; after an error
\* the error event first
FireEvent(enc) ==
  /\ encoders[enc].queue # <<>>
  /\ encoders' = [encoders EXCEPT ![enc].queue = Tail(@)]
  /\ LET event == Head(encoders[enc].queue)
     IN  IF event \notin encoders[enc].listeners THEN Dropped
         ELSE IF event = "dataavailable" THEN \E data \in Chunks : HandleDataAvailable(data)
         ELSE IF event = "stop" THEN HandleStop(enc)
         ELSE \E err \in RecorderErrors : HandleError(err)
  /\ UNCHANGED <<props, mounted, streams, calls, nAcquire, yielded>>

\* the recorder fails while recording or paused: it turns inactive and fires
\* error, dataavailable and stop
EncoderError(enc) ==
  /\ encoders[enc].state # "inactive"
  /\ encoders' = [encoders EXCEPT ![enc].state = "inactive",
                                  ![enc].queue = @ \o <<"error", "dataavailable", "stop">>]
  /\ UNCHANGED <<props, cells, refs, liveStream, mounted, streams, calls, callbacks,
                 delivered, nAcquire, yielded>>

\* every track of the recorded stream has ended: the recorder turns inactive
\* and fires dataavailable and stop
TracksEnded(enc) ==
  /\ encoders[enc].state # "inactive"
  /\ \A i \in DOMAIN streams[encoders[enc].stream].tracks :
       streams[encoders[enc].stream].tracks[i].stops > 0
  /\ encoders' = [encoders EXCEPT ![enc].state = "inactive",
                                  ![enc].queue = @ \o <<"dataavailable", "stop">>]
  /\ UNCHANGED <<props, cells, refs, liveStream, mounted, streams, calls, callbacks,
                 delivered, nAcquire, yielded>>

\* ---- the other commands ----

\* the host's streams after clearMediaStream: track.stop() on every track of
\* the held stream, if one is held
ClearedStreams ==
  IF mediaStream # NULL THEN [streams EXCEPT ![mediaStream] = StopTracks(@)] ELSE streams

ClearMediaStream ==
  /\ mounted
  /\ streams' = ClearedStreams
  /\ mediaStream' = NULL
  /\ UNCHANGED <<props, cells, mediaChunks, mediaRecorder, mounted, encoders, calls,
                 callbacks, delivered, nAcquire, yielded>>
  /\ Commit

MuteAudio(mute) ==
  /\ mounted
  /\ isAudioMutedCache' = SetState(isAudioMutedCache, mute)
  /\ streams' = IF mediaStream # NULL
                  THEN [streams EXCEPT ![mediaStream] = SetAudioEnabled(@, mute)]
                  ELSE streams
  /\ UNCHANGED <<props, status, errorCache, mediaBlobCache, refs, mounted, encoders, calls,
                 callbacks, delivered, nAcquire, yielded>>
  /\ Commit

\* a pauseRecording that pauses the recorder and leaves the status alone
PauseRecording_NoStatus ==
  /\ mounted
  /\ IF mediaRecorder # NULL /\ encoders[mediaRecorder].state = "recording"
       THEN encoders' = [encoders EXCEPT ![mediaRecorder].state = "paused"]
       ELSE UNCHANGED encoders
  /\ UNCHANGED <<props, cells, refs, liveStream, mounted, streams, calls, callbacks,
                 delivered, nAcquire, yielded>>

PauseRecording ==
  /\ mounted
  /\ IF mediaRecorder # NULL /\ encoders[mediaRecorder].state = "recording"
       THEN /\ encoders' = [encoders EXCEPT ![mediaRecorder].state = "paused"]
            /\ status' = SetState(status, "paused")
       ELSE UNCHANGED <<encoders, status>>
  /\ UNCHANGED <<props, errorCache, mediaBlobCache, isAudioMutedCache, refs, mounted,
                 streams, calls, callbacks, delivered, nAcquire, yielded>>
  /\ Commit

\* a resumeRecording that only checks that a recorder is held
ResumeRecording_Unguarded ==
  /\ mounted
  /\ IF mediaRecorder # NULL
       THEN /\ encoders' = [encoders EXCEPT ![mediaRecorder].state = "recording"]
            /\ status' = SetState(status, "recording")
       ELSE UNCHANGED <<encoders, status>>
  /\ UNCHANGED <<props, errorCache, mediaBlobCache, isAudioMutedCache, refs, mounted,
                 streams, calls, callbacks, delivered, nAcquire, yielded>>
  /\ Commit

ResumeRecording ==
  /\ mounted
  /\ IF mediaRecorder # NULL /\ encoders[mediaRecorder].state = "paused"
       THEN /\ encoders' = [encoders EXCEPT ![mediaRecorder].state = "recording"]
            /\ status' = SetState(status, "recording")
       ELSE UNCHANGED <<encoders, status>>
  /\ UNCHANGED <<props, errorCache, mediaBlobCache, isAudioMutedCache, refs, mounted,
                 streams, calls, callbacks, delivered, nAcquire, yielded>>
  /\ Commit

\* MediaRecorder.stop(): an inactive recorder ignores it; otherwise the
\* recorder turns inactive and queues dataavailable and stop
EncoderStop(e) ==
  [e EXCEPT !.stopCalls = @ + 1,
            !.state = "inactive",
            !.queue = IF e.state = "inactive" THEN @ ELSE @ \o <<"dataavailable", "stop">>]

\* removeEventListener(type, handler) with the three handlers of the calling
\* render.  The handlers are functions declared in the body of the hook, so
\* every render makes new ones: the call removes a listener only if the
\* caller's stopRecording comes from the render whose startRecording added
\* the listeners (sameRender), else it removes nothing.
RemoveListeners(e, sameRender) == [e EXCEPT !.listeners = IF sameRender THEN {} ELSE @]

\* a stopRecording that forgets clearMediaStream()
StopRecording_KeepStream(sameRender) ==
  /\ mounted
  /\ IF mediaRecorder # NULL
       THEN /\ status' = SetState(status, "stopping")
            /\ encoders' = [encoders EXCEPT ![mediaRecorder] =
                              RemoveListeners(EncoderStop(@), sameRender)]
            /\ mediaRecorder' = NULL
       ELSE UNCHANGED <<status, encoders, mediaRecorder>>
  /\ UNCHANGED <<props, errorCache, mediaBlobCache, isAudioMutedCache, mediaChunks,
                 mediaStream, mounted, streams, calls, callbacks, delivered, nAcquire,
                 yielded>>
  /\ Commit

\* a stopRecording that, with no recorder held, cancels the startRecording
\* calls that still await their stream
StopRecording_CancelsPending(sameRender) ==
  /\ mounted
  /\ IF mediaRecorder # NULL
       THEN /\ status' = SetState(status, "stopping")
            /\ encoders' = [encoders EXCEPT ![mediaRecorder] =
                              RemoveListeners(EncoderStop(@), sameRender)]
            /\ mediaRecorder' = NULL
            /\ streams' = ClearedStreams
            /\ mediaStream' = NULL
            /\ calls' = calls
       ELSE /\ calls' = SelectSeq(calls, LAMBDA c : c.op # "startRecording")
            /\ UNCHANGED <<status, encoders, mediaRecorder, streams, mediaStream>>
  /\ UNCHANGED <<props, errorCache, mediaBlobCache, isAudioMutedCache, mediaChunks, mounted,
                 callbacks, delivered, nAcquire, yielded>>
  /\ Commit

StopRecording(sameRender) ==
  /\ mounted
  /\ IF mediaRecorder # NULL
       THEN /\ status' = SetState(status, "stopping")
            /\ encoders' = [encoders EXCEPT ![mediaRecorder] =
                              RemoveListeners(EncoderStop(@), sameRender)]
            /\ mediaRecorder' = NULL
            /\ streams' = ClearedStreams
            /\ mediaStream' = NULL
       ELSE UNCHANGED <<status, encoders, mediaRecorder, streams, mediaStream>>
  /\ UNCHANGED <<props, errorCache, mediaBlobCache, isAudioMutedCache, mediaChunks, mounted,
                 calls, callbacks, delivered, nAcquire, yielded>>
  /\ Commit

\* a clearMediaBlob that also sets the status back to idle
ClearMediaBlob_ResetsStatus ==
  /\ mounted
  /\ mediaBlobCache' = SetState(mediaBlobCache, NoBlob)
  /\ status' = SetState(status, "idle")
  /\ UNCHANGED <<props, errorCache, isAudioMutedCache, refs, mounted, streams,
                 encoders, calls, callbacks, delivered, nAcquire, yielded>>
  /\ Commit

ClearMediaBlob ==
  /\ mounted
  /\ mediaBlobCache' = SetState(mediaBlobCache, NoBlob)
  /\ UNCHANGED <<props, status, errorCache, isAudioMutedCache, refs, mounted, streams,
                 encoders, calls, callbacks, delivered, nAcquire, yielded>>
  /\ Commit

\* the component that uses the hook renders again for a reason of its own
Rerender ==
  /\ mounted
  /\ liveStream' = mediaStream
  /\ UNCHANGED <<props, cells, refs, mounted, streams, encoders, calls, callbacks,
                 delivered, nAcquire, yielded>>

\* the component is unmounted; the hook registers no cleanup
Unmount ==
  /\ mounted
  /\ mounted' = FALSE
  /\ UNCHANGED <<props, cells, refs, liveStream, streams, encoders, calls, callbacks,
                 delivered, nAcquire, yielded>>

\* ---- specifications ----

\* the bounds, as guards of the commands that start something
CanAcquire(maxCalls) == nAcquire < MaxAcquire /\ Len(calls) < maxCalls
CanRecord(maxEncoders) == Len(encoders) + PendingStarts < maxEncoders
CanEmit(maxChunks) == Len(delivered) < maxChunks

\* acquisition, recording, stopping and the events of the recorders
Sessions(maxEncoders, maxCalls, timeSlices, maxChunks) ==
  \/ CanAcquire(maxCalls) /\ GetMediaStream
  \/ \E i \in DOMAIN calls : AcquireDisplay(i)
  \/ \E i \in DOMAIN calls : AcquireResolve(i)
  \/ \E i \in DOMAIN calls, err \in AcquireErrors : AcquireReject(i, err)
  \/ \E i \in DOMAIN calls : StartRecordingResume(i)
  \/ /\ CanRecord(maxEncoders)
     /\ mediaStream = NULL => CanAcquire(maxCalls)
     /\ \E timeSlice \in timeSlices : StartRecording(timeSlice)
  \/ CanEmit(maxChunks) /\ \E enc \in DOMAIN encoders, data \in Chunks : EmitChunk(enc, data)
  \/ \E enc \in DOMAIN encoders : FireEvent(enc)
  \/ \E enc \in DOMAIN encoders : EncoderError(enc)
  \/ \E enc \in DOMAIN encoders : TracksEnded(enc)
  \/ \E sameRender \in BOOLEAN : StopRecording(sameRender)

\* the commands that start nothing
Controls ==
  \/ ClearMediaStream
  \/ PauseRecording
  \/ ResumeRecording
  \/ ClearMediaBlob

Recording(maxEncoders, maxCalls, timeSlices, maxChunks) ==
  \/ Sessions(maxEncoders, maxCalls, timeSlices, maxChunks)
  \/ Controls

\* every command and event, one recorder
Next ==
  \/ Recording(MaxEncoders, MaxCalls, TimeSlices, MaxChunkEvents)
  \/ \E mute \in BOOLEAN : MuteAudio(mute)
  \/ Rerender
  \/ Unmount

Spec == Init /\ [][Next]_vars

\* a mounted hook that records more than once, with calls that overlap
SessionNext == Sessions(MaxSessions, MaxPending, {0}, MaxChunkEvents)

SessionSpec == Init /\ [][SessionNext]_vars

\* one recording with more timeslices
ChunkNext == Recording(MaxEncoders, MaxCalls, {0}, MaxChunks)

ChunkSpec == Init /\ [][ChunkNext]_vars


\* ---- claims ----

RECURSIVE StartCalls(_)
\* start() invocations over all the recorders of encs
StartCalls(encs) ==
  IF encs = <<>> THEN 0 ELSE Head(encs).startCalls + StartCalls(Tail(encs))

\* the step in which the host fires the stop event of recorder enc
StopEventOf(enc) ==
  /\ encoders[enc].queue # <<>>
  /\ Head(encoders[enc].queue) = "stop"
  /\ FireEvent(enc)

\* onStop invocations with a blob of recorder enc
OnStopCount(enc) == Cardinality({k \in DOMAIN onStopCalls : onStopCalls[k].enc = enc})

\* the non-empty chunks of a sequence, in order
NonEmpty(seq) == SelectSeq(seq, LAMBDA c : c.size # 0)

\* C1: a startRecording invoked while the status is recording and the held
\* recorder is recording is a no-op: no recorder is constructed and no
\* start() is invoked.
C1_SecondStartIsNoOp ==
  [][\A t \in TimeSlices :
       ( /\ status = "recording"
         /\ mediaRecorder # NULL
         /\ encoders[mediaRecorder].state = "recording"
         /\ StartRecording(t) )
       => ( /\ mediaRecorder' = mediaRecorder
            /\ Len(encoders') = Len(encoders)
            /\ StartCalls(encoders') = StartCalls(encoders) )]_vars

\* C2: a getMediaStream call without a custom stream sets the status to
\* acquiring_media and leaves an acquisition pending; when the acquisition of
\* a mounted hook resolves, the status becomes ready and a stream is held.
C2_AcquireReady ==
  [][ /\ (customMediaStream = NULL /\ GetMediaStream)
         => (status' = "acquiring_media" /\ Len(calls') = Len(calls) + 1)
      /\ \A i \in DOMAIN calls :
           (mounted /\ calls[i].op = "getMediaStream" /\ AcquireResolve(i))
           => (status' = "ready" /\ mediaStream' # NULL /\ mediaStream' \in DOMAIN streams')
    ]_vars

\* an acquisition has resolved: ready, with the acquired stream held and no call pending
C2_Witness ==
  /\ mounted
  /\ customMediaStream = NULL
  /\ calls = <<>>
  /\ status = "ready"
  /\ mediaStream # NULL
  /\ encoders = <<>>

\* C3: when the acquisition of a getMediaStream call fails, the status is
\* failed, the error is set and no stream is held, whatever the state was.
C3_FailureLeavesNoStream ==
  [][\A i \in DOMAIN calls, err \in AcquireErrors :
       (mounted /\ calls[i].op = "getMediaStream" /\ AcquireReject(i, err))
       => (status' = "failed" /\ errorCache' # NoError /\ mediaStream' = NULL)]_vars

\* C4: when start() throws inside startRecording, onError is invoked and the
\* status becomes failed.
C4_StartThrowIsCaught ==
  [][\A t \in TimeSlices :
       ( /\ mounted
         /\ mediaStream # NULL
         /\ StartRecording(t)
         /\ Len(encoders') = Len(encoders) + 1
         /\ encoders'[Len(encoders')].threw )
       => (status' = "failed" /\ Len(onErrorCalls') = Len(onErrorCalls) + 1)]_vars

\* C5: a session with a chunk accumulated that stopRecording stopped has had
\* stop() invoked once, and by the time its last event (stop) has fired the
\* status has left stopping for idle or stopped and a blob is stored.
C5_StopSettles ==
  [][\A enc \in DOMAIN encoders :
       ( /\ mounted
         /\ status = "stopping"
         /\ encoders[enc].stopCalls = 1
         /\ mediaChunks # <<>>
         /\ StopEventOf(enc) )
       => (status' \in {"idle", "stopped"} /\ mediaBlobCache' # NoBlob)]_vars

\* C6: once a session that was started and stopped has fired all its events,
\* onStop has been invoked exactly once with a blob of that session (stated
\* for the sessions that hold a chunk at that point).
C6_ExactlyOneOnStop ==
  \A enc \in DOMAIN encoders :
    ( /\ ~encoders[enc].threw
      /\ encoders[enc].stopCalls = 1
      /\ encoders[enc].state = "inactive"
      /\ encoders[enc].queue = <<>>
      /\ mediaChunks # <<>> )
    => OnStopCount(enc) = 1

\* C7: onDataAvailable has been invoked once with every chunk delivered since
\* the chunks were reset, in order, the empty chunks too, and the chunks
\* held are the non-empty ones of those delivered, in delivery order.
C7_ChunkAccumulation ==
  /\ onDataAvailableCalls = delivered
  /\ mediaChunks = NonEmpty(delivered)

\* the delivery c1 (size 4), c2 (size 0), c3 (size 10): three callbacks, two chunks held
C7_Witness ==
  /\ delivered = << [size |-> 4, type |-> "audio/webm"],
                    [size |-> 0, type |-> "audio/webm"],
                    [size |-> 10, type |-> "video/webm"] >>
  /\ Len(onDataAvailableCalls) = 3
  /\ mediaChunks = << [size |-> 4, type |-> "audio/webm"],
                      [size |-> 10, type |-> "video/webm"] >>

\* C8: when the stop event is handled, a blob is stored that is
\* made of the chunks held, in order, with the type of blobOptions if it has
\* one and of the first chunk otherwise, and onStop is invoked with that blob.
C8_BlobFromChunks ==
  [][\A enc \in DOMAIN encoders :
       ( /\ mounted
         /\ "stop" \in encoders[enc].listeners
         /\ StopEventOf(enc) )
       => ( /\ mediaBlobCache' # NoBlob
            /\ mediaBlobCache'.parts = mediaChunks
            /\ mediaBlobCache'.type =
                 IF blobOptions.type # "null" THEN blobOptions.type ELSE mediaChunks[1].type
            /\ onStopCalls' = Append(onStopCalls, mediaBlobCache') )]_vars

\* C9: pauseRecording with the held recorder recording pauses the recorder
\* and sets the status to paused; resumeRecording with the held recorder
\* paused resumes it and sets the status to recording.
C9_PauseResume ==
  [][ /\ ( /\ mediaRecorder # NULL
           /\ encoders[mediaRecorder].state = "recording"
           /\ PauseRecording )
         => (encoders'[mediaRecorder].state = "paused" /\ status' = "paused")
      /\ ( /\ mediaRecorder # NULL
           /\ encoders[mediaRecorder].state = "paused"
           /\ ResumeRecording )
         => (encoders'[mediaRecorder].state = "recording" /\ status' = "recording")
    ]_vars

\* a recording on a held stream has been paused
C9_Witness ==
  /\ mounted
  /\ mediaStream # NULL
  /\ mediaRecorder # NULL
  /\ encoders[mediaRecorder].state = "paused"
  /\ status = "paused"

\* C10: clearMediaStream invoked with the status ready sets the status to
\* idle, and the liveStream returned afterwards is null.
C10_ClearResetsToIdle ==
  [][(status = "ready" /\ mediaStream # NULL /\ ClearMediaStream)
       => (status' = "idle" /\ liveStream' = NULL)]_vars

\* track.stop() invocations on track i of stream h
Stops(strs, h, i) == strs[h].tracks[i].stops

\* C11: clearMediaStream with a stream held invokes stop() once on every
\* track of that stream, on no track of another stream, and holds no stream
\* afterwards; with no stream held (as after a first clearMediaStream) it
\* stops no track and changes nothing.
C11_ClearStopsTracksOnce ==
  [][ /\ (mediaStream # NULL /\ ClearMediaStream)
         => ( /\ mediaStream' = NULL
              /\ DOMAIN streams' = DOMAIN streams
              /\ \A i \in DOMAIN streams[mediaStream].tracks :
                   Stops(streams', mediaStream, i) = Stops(streams, mediaStream, i) + 1
              /\ \A h \in DOMAIN streams : h # mediaStream => streams'[h] = streams[h] )
      /\ (mediaStream = NULL /\ ClearMediaStream) => UNCHANGED vars
    ]_vars

\* a stream acquired by getMediaStream has been cleared: every track stopped
\* once, no stream held
C11_Witness ==
  /\ mounted
  /\ status = "ready"
  /\ mediaStream = NULL
  /\ encoders = <<>>
  /\ Len(streams) = 1
  /\ Len(streams[1].tracks) = 2
  /\ \A i \in DOMAIN streams[1].tracks : streams[1].tracks[i].stops = 1

\* the step in which the host fires the error event of recorder enc and the
\* hook's listener for it is still registered
ErrorEventOf(enc) ==
  /\ encoders[enc].queue # <<>>
  /\ Head(encoders[enc].queue) = "error"
  /\ "error" \in encoders[enc].listeners
  /\ FireEvent(enc)

\* C12: when a recorder reports an error event to a mounted hook, the
\* reported error is stored as the error, onError is invoked with it, and
\* the status becomes failed.
C12_ErrorSetsFailed ==
  [][\A enc \in DOMAIN encoders :
       (mounted /\ ErrorEventOf(enc))
       => ( /\ errorCache' # NoError
            /\ onErrorCalls' = Append(onErrorCalls, errorCache')
            /\ status' = "failed" )]_vars

\* C13: stopRecording with a recorder held invokes stop() on it once,
\* holds no recorder afterwards, invokes stop() on every track of the held
\* stream and holds no stream afterwards.
C13_StopReleases ==
  [][\A sameRender \in BOOLEAN :
       (mediaRecorder # NULL /\ StopRecording(sameRender))
       => ( /\ encoders'[mediaRecorder].stopCalls = encoders[mediaRecorder].stopCalls + 1
            /\ \A e \in DOMAIN encoders :
                 e # mediaRecorder => encoders'[e].stopCalls = encoders[e].stopCalls
            /\ mediaRecorder' = NULL
            /\ mediaStream' = NULL
            /\ mediaStream # NULL =>
                 \A i \in DOMAIN streams[mediaStream].tracks :
                   Stops(streams', mediaStream, i) = Stops(streams, mediaStream, i) + 1 )]_vars

\* a recording has been stopped: stop() invoked once, the recorder and the
\* stream released, both tracks of the recorded stream stopped
C13_Witness ==
  /\ mounted
  /\ status = "stopping"
  /\ mediaRecorder = NULL
  /\ mediaStream = NULL
  /\ Len(encoders) = 1
  /\ encoders[1].stopCalls = 1
  /\ encoders[1].state = "inactive"
  /\ \A i \in DOMAIN streams[encoders[1].stream].tracks :
       streams[encoders[1].stream].tracks[i].stops = 1

\* the recorder the step constructed, if it constructed one, did not throw from start()
StartDidNotThrow ==
  Len(encoders') > Len(encoders) => ~encoders'[Len(encoders')].threw

\* C14: a startRecording invoked with no stream held awaits the acquisition.
\* When the acquisition resolves (and start() does not throw) the chunks
\* are empty, one recorder has been constructed on the acquired stream and
\* started once with the timeSlice of the call, the status is recording and
\* onStart has been invoked once; when it rejects, no recorder is
\* constructed, onStart is not invoked and the status is failed.
C14_StartAcquires ==
  [][\A i \in DOMAIN calls :
       /\ (mounted /\ calls[i].op = "startRecording" /\ AcquireResolve(i) /\ StartDidNotThrow)
          => ( /\ mediaChunks' = <<>>
               /\ Len(encoders') = Len(encoders) + 1
               /\ SubSeq(encoders', 1, Len(encoders)) = encoders
               /\ encoders'[Len(encoders')].stream = mediaStream'
               /\ mediaStream' \in DOMAIN streams'
               /\ encoders'[Len(encoders')].startCalls = 1
               /\ encoders'[Len(encoders')].timeSlice = calls[i].timeSlice
               /\ mediaRecorder' = Len(encoders')
               /\ status' = "recording"
               /\ onStartCalls' = onStartCalls + 1 )
       /\ \A err \in AcquireErrors :
            (mounted /\ calls[i].op = "startRecording" /\ AcquireReject(i, err))
            => ( /\ encoders' = encoders
                 /\ onStartCalls' = onStartCalls
                 /\ status' = "failed" )]_vars

\* every audio track of stream h has its enabled flag equal to flag
AudioEnabledIs(strs, h, flag) ==
  \A i \in DOMAIN strs[h].tracks :
    strs[h].tracks[i].kind = "audio" => strs[h].tracks[i].enabled = flag

\* C15: muteAudio() (mute = TRUE) and unMuteAudio() (mute = FALSE), in
\* whatever status, set isAudioMuted to the flag; the audio tracks of the
\* held stream get enabled = ~flag; every video track, every other stream,
\* the status, the error, the blob, the chunks, the held stream and recorder
\* and every recorder are left as they were.
C15_MuteFrame ==
  [][\A mute \in BOOLEAN :
       MuteAudio(mute)
       => ( /\ isAudioMutedCache' = mute
            /\ mediaStream # NULL => AudioEnabledIs(streams', mediaStream, ~mute)
            /\ DOMAIN streams' = DOMAIN streams
            /\ \A h \in DOMAIN streams :
                 /\ h # mediaStream => streams'[h] = streams[h]
                 /\ DOMAIN streams'[h].tracks = DOMAIN streams[h].tracks
                 /\ \A i \in DOMAIN streams[h].tracks :
                      /\ streams'[h].tracks[i].kind = streams[h].tracks[i].kind
                      /\ streams'[h].tracks[i].stops = streams[h].tracks[i].stops
                      /\ streams[h].tracks[i].kind = "video"
                         => streams'[h].tracks[i].enabled = streams[h].tracks[i].enabled
            /\ UNCHANGED <<status, errorCache, mediaBlobCache, refs, encoders>> )]_vars

\* audio has been muted while recording: the audio track of the recorded
\* stream is disabled, its video track still enabled
C15_Witness ==
  /\ mounted
  /\ status = "recording"
  /\ isAudioMutedCache
  /\ mediaStream # NULL
  /\ \E i, j \in DOMAIN streams[mediaStream].tracks :
       /\ streams[mediaStream].tracks[i].kind = "audio"
       /\ ~streams[mediaStream].tracks[i].enabled
       /\ streams[mediaStream].tracks[j].kind = "video"
       /\ streams[mediaStream].tracks[j].enabled

\* the state muteAudio() leaves when a stream with audio tracks is held
MutedHeld ==
  /\ mediaStream # NULL
  /\ GetAudioTracks(streams[mediaStream]) # <<>>
  /\ isAudioMutedCache
  /\ AudioEnabledIs(streams, mediaStream, FALSE)

\* C16: with a stream held whose audio tracks are enabled, muteAudio()
\* leaves the stream held, muted, with its audio tracks disabled; and
\* unMuteAudio() in that state leaves isAudioMuted false and every audio
\* track of the held stream enabled.
C16_MuteRoundTrip ==
  [][ /\ ( /\ mediaStream # NULL
           /\ GetAudioTracks(streams[mediaStream]) # <<>>
           /\ AudioEnabledIs(streams, mediaStream, TRUE)
           /\ MuteAudio(TRUE) )
         => MutedHeld'
      /\ (MutedHeld /\ MuteAudio(FALSE))
         => ( /\ mediaStream' = mediaStream
              /\ isAudioMutedCache' = FALSE
              /\ AudioEnabledIs(streams', mediaStream, TRUE) )
    ]_vars

\* the middle of the round trip: muteAudio() has acted on a held stream
\* made of a display track and a microphone track, and unMuteAudio() is next
C16_Witness ==
  /\ mounted
  /\ recordScreen
  /\ status = "ready"
  /\ MutedHeld

\* C17: clearMediaBlob, in whatever state, leaves no blob stored and leaves
\* the status, the error, isAudioMuted, the chunks, the held stream and
\* recorder, the streams and the recorders as they were.
C17_ClearBlobFrame ==
  [][ClearMediaBlob
       => ( /\ mediaBlobCache' = NoBlob
            /\ UNCHANGED <<status, errorCache, isAudioMutedCache, refs, streams, encoders,
                           calls, callbacks>> )]_vars

\* the blob of a stopped recording has been cleared: onStop received a blob,
\* the status is still stopped, and no blob is stored
C17_Witness ==
  /\ mounted
  /\ status = "stopped"
  /\ Len(onStopCalls) = 1
  /\ mediaBlobCache = NoBlob

\* C18: with a custom stream configured, getMediaStream holds that stream
\* afterwards and yields it to its caller, and asks the host for no stream;
\* without one, getMediaStream asks the host, and when the host resolves
\* the status of a mounted hook is ready.
C18_CustomStreamYielded ==
  [][ /\ (customMediaStream # NULL /\ GetMediaStream)
         => ( /\ mediaStream' = customMediaStream
              /\ yielded' = <<customMediaStream>>
              /\ calls' = calls
              /\ streams' = streams )
      /\ (customMediaStream = NULL /\ GetMediaStream)
         => Len(calls') = Len(calls) + 1
      /\ \A i \in DOMAIN calls :
           (mounted /\ calls[i].op = "getMediaStream" /\ AcquireResolve(i))
           => status' = "ready"
    ]_vars

\* C19: getMediaStream invoked with the status failed and an error stored
\* clears the error; when its acquisition resolves, the status of a mounted
\* hook is ready, a stream is held and the resolution stores no error.
C19_FailureRecovers ==
  [][ /\ (status = "failed" /\ errorCache # NoError /\ GetMediaStream)
         => errorCache' = NoError
      /\ \A i \in DOMAIN calls :
           (mounted /\ calls[i].op = "getMediaStream" /\ AcquireResolve(i))
           => (status' = "ready" /\ mediaStream' # NULL /\ errorCache' = errorCache)
    ]_vars

\* C20: the liveStream a mounted hook exposes is null exactly when no stream
\* is held, and a non-null liveStream carries no audio track.
C20_LiveStreamVideoOnly ==
  mounted =>
    /\ (liveStream = NULL) <=> (mediaStream = NULL)
    /\ liveStream # NULL => GetAudioTracks(streams[liveStream]) = <<>>

\* no acquisition and no recording has been started on the hook yet
FreshController == nAcquire = 0 /\ encoders = <<>> /\ calls = <<>>

\* C21: a hook on which nothing has been started yet has status idle, no
\* error, no blob, isAudioMuted false and liveStream null, holds no stream
\* and no recorder, and has no chunk.
C21_InitialState ==
  FreshController =>
    /\ status = "idle"
    /\ errorCache = NoError
    /\ mediaBlobCache = NoBlob
    /\ isAudioMutedCache = FALSE
    /\ liveStream = NULL
    /\ mediaStream = NULL
    /\ mediaRecorder = NULL
    /\ mediaChunks = <<>>

\* the hook as created, for screen recording with a blob type of the caller
C21_Witness ==
  /\ FreshController
  /\ mounted
  /\ recordScreen
  /\ blobOptions.type = "video/mp4"
  /\ yielded = <<>>
  /\ onStartCalls = 0
  /\ streams = <<>>

\* C22: when the acquisition of a hook that has been unmounted resolves or
\* rejects, the status, the held stream and the error stay as they were.
C22_UnmountedAcquisitionWritesNothing ==
  [][\A i \in DOMAIN calls :
       ( /\ ~mounted
         /\ AcquireResolve(i) \/ \E err \in AcquireErrors : AcquireReject(i, err) )
       => UNCHANGED <<status, mediaStream, errorCache>>]_vars

\* C23: a recorder that stopRecording has stopped has no listener left, and
\* no event it fires afterwards changes the chunks, the blob, the status or
\* the error, or invokes onDataAvailable, onStop or onError.
C23_NoEventAfterStop ==
  [][\A enc \in DOMAIN encoders :
       /\ encoders'[enc].stopCalls > 0 => encoders'[enc].listeners = {}
       /\ (encoders[enc].stopCalls > 0 /\ FireEvent(enc))
          => UNCHANGED <<mediaChunks, mediaBlobCache, status, errorCache,
                         onDataAvailableCalls, onStopCalls, onErrorCalls>>]_vars

\* C24: whenever the status is ready, recording, paused or stopping, the
\* controller holds a stream.
C24_StatusImpliesStream ==
  status \in {"ready", "recording", "paused", "stopping"} => mediaStream # NULL

\* every track of stream h has been stopped
Released(strs, h) == \A k \in DOMAIN strs[h].tracks : strs[h].tracks[k].stops > 0

\* C25: a held stream is replaced or dropped only with all its tracks
\* stopped; in particular an acquisition that resolves while a stream is held
\* releases the held stream before it stores the new one.
C25_ReleasedBeforeReplaced ==
  [][(mediaStream # NULL /\ mediaStream' # mediaStream)
       => Released(streams', mediaStream)]_vars

\* the recorder held by the hook is in state st
RecorderIs(st) == mediaRecorder # NULL /\ encoders[mediaRecorder].state = st

\* C26: pauseRecording without a recorder in state 'recording',
\* resumeRecording without a recorder in state 'paused' and stopRecording
\* without a recorder send no command to any recorder and leave the status,
\* the stream, the recorder, the chunks, the blob and the error as they were.
C26_GuardedNoOps ==
  [][( \/ ~RecorderIs("recording") /\ PauseRecording
       \/ ~RecorderIs("paused") /\ ResumeRecording
       \/ mediaRecorder = NULL /\ \E sameRender \in BOOLEAN : StopRecording(sameRender) )
       => UNCHANGED <<encoders, status, mediaStream, streams, mediaRecorder, mediaChunks,
                      mediaBlobCache, errorCache>>]_vars

\* a recorder that an error turned inactive is still held: neither the guard
\* of pauseRecording nor the guard of resumeRecording holds
C26_Witness ==
  /\ mounted
  /\ RecorderIs("inactive")
  /\ onErrorCalls # <<>>
  /\ status = "idle"
  /\ mediaStream # NULL

EventOf(enc) == FireEvent(enc) \/ \E data \in Chunks : EmitChunk(enc, data)

\* C28: every recorder gets start() exactly once, the step that creates a
\* recorder empties the chunks, and once a later recorder exists no event of
\* an earlier recorder adds to the chunks or stores a blob, so that a blob
\* holds chunks of its own session only.
C28_OneSessionPerEncoder ==
  [][/\ \A enc \in DOMAIN encoders' : encoders'[enc].startCalls = 1
     /\ Len(encoders') > Len(encoders) => mediaChunks' = <<>>
     /\ \A enc \in DOMAIN encoders :
          (enc < Len(encoders) /\ EventOf(enc))
            => UNCHANGED <<mediaChunks, mediaBlobCache>>]_vars

\* call i of a screen recording with an audio constraint awaits the microphone
AwaitsMic(i) == recordScreen /\ mediaStreamConstraints.audio /\ calls[i].await = "mic"

\* C29: a getMediaStream of a screen recording with an audio constraint
\* first acquires the display and stores nothing then, next acquires the
\* microphone; when that resolves the status is ready and the held stream is
\* the display stream with the microphone's audio track added; when it
\* rejects the status is failed, the error is stored and no stream is held.
C29_ScreenComposition ==
  [][\A i \in DOMAIN calls :
       /\ (calls[i].op = "getMediaStream" /\ AcquireDisplay(i))
            => /\ AwaitsMic(i)'
               /\ streams'[calls'[i].stream] = DisplayStream
               /\ UNCHANGED <<status, mediaStream>>
       /\ (calls[i].op = "getMediaStream" /\ AwaitsMic(i) /\ mounted /\ AcquireResolve(i))
            => /\ status' = "ready"
               /\ mediaStream' = calls[i].stream
               /\ streams'[mediaStream'] = AddAudioTracks(DisplayStream, MicStream)
       /\ \A err \in AcquireErrors :
            (calls[i].op = "getMediaStream" /\ AwaitsMic(i) /\ mounted /\ AcquireReject(i, err))
              => /\ status' = "failed"
                 /\ errorCache' = err
                 /\ mediaStream' = NULL]_vars

\* the recorders that were started, are not stopped and have listeners
ActiveEncoders ==
  {enc \in DOMAIN encoders :
     encoders[enc].state # "inactive" /\ encoders[enc].listeners # {}}

\* C30: at most one recorder at a time is started, not yet stopped and has
\* listeners registered.
C30_OneActiveEncoder == Cardinality(ActiveEncoders) <= 1

\* C31: a recorder is held only while the status is recording or paused.
C31_RecorderOnlyWhileRecording ==
  mediaRecorder # NULL => status \in {"recording", "paused"}

\* C32: whenever a stream is held, isAudioMuted is true exactly when every
\* audio track of the held stream is disabled.
C32_MutedMatchesTracks ==
  mediaStream # NULL
    => (isAudioMutedCache <=> AudioEnabledIs(streams, mediaStream, FALSE))

\* C33: the status of a mounted hook is acquiring_media only while an
\* acquisition is in flight.
C33_AcquiringIsTransient ==
  (mounted /\ calls = <<>>) => status # "acquiring_media"

\* call i is a startRecording that awaits the last acquisition of its
\* getMediaStream, and the hook holds no recorder
StartAwaits(i) ==
  /\ calls[i].op = "startRecording"
  /\ calls[i].await \in {"user", "mic"} \/ (calls[i].await = "display" /\ ~recordScreen)
  /\ mediaRecorder = NULL

\* C34: while a startRecording awaits its stream and no recorder is held,
\* stopRecording changes nothing at all, the call stays pending, and when
\* its acquisition resolves on a mounted hook a new recorder is created on
\* the acquired stream, held, given start() once and, unless start() throws,
\* is recording with status recording.
C34_EarlyStopIsLost ==
  [][\A i \in DOMAIN calls :
       /\ (StartAwaits(i) /\ \E sameRender \in BOOLEAN : StopRecording(sameRender))
            => UNCHANGED vars
       /\ (StartAwaits(i) /\ mounted /\ AcquireResolve(i))
            => /\ Len(encoders') = Len(encoders) + 1
               /\ mediaRecorder' = Len(encoders')
               /\ encoders'[mediaRecorder'].stream = mediaStream'
               /\ encoders'[mediaRecorder'].startCalls = 1
               /\ encoders'[mediaRecorder'].stopCalls = 0
               /\ ~encoders'[mediaRecorder'].threw
                    => /\ encoders'[mediaRecorder'].state = "recording"
                       /\ status' = "recording"]_vars

\* a startRecording of a mounted hook awaits its stream: no stream, no
\* recorder, nothing to stop
C34_Witness ==
  /\ mounted
  /\ status = "acquiring_media"
  /\ mediaStream = NULL
  /\ encoders = <<>>
  /\ \E i \in DOMAIN calls : StartAwaits(i)

====
